---------------------------- MODULE Spec2Model ----------------------------
(***************************************************************************)
(* A model of the obographs standardization engine                         *)
(* (src/src/obographs/standardized.py) and of the raw data model and its   *)
(* indexing utilities (src/src/obographs/model.py).                        *)
(*                                                                         *)
(* Conventions                                                             *)
(*   - a Python str is a sequence of tokens (a token is a TLA+ string that *)
(*     stands for a run of characters); concatenation is \o and            *)
(*     str.startswith is a prefix test on the token sequence;              *)
(*   - an Optional[T] is a sequence of length 0 (None) or 1 (the value);   *)
(*   - a call returns Ok(v) or Raise(e), e the name of the exception class;*)
(*     pydantic's ValidationError is a subclass of ValueError, which is    *)
(*     what IsValueError states.                                           *)
(***************************************************************************)
EXTENDS Naturals, Sequences, FiniteSets

VARIABLES
    converter,      \* the resolver: the set of prefixes registered in it
    graph,          \* the raw Graph given to the operations
    meta,           \* the raw Meta given to the Meta-level operations
    st_graph,       \* result of StandardizedGraph.from_obograph_raw(graph)
    raw_graph,      \* result of .to_raw on st_graph's value
    st_doc,         \* result of StandardizedGraphDocument.from_obograph_raw
    st_nodes,       \* per node: result of StandardizedNode.from_obograph_raw
    st_edges,       \* per edge: result of StandardizedEdge.from_obograph_raw
    raw_edges,      \* per edge: result of .to_raw on the standardized edge
    id_to_node,     \* result of get_id_to_node(graph)
    id_to_edges,    \* result of get_id_to_edges(graph)
    st_meta,        \* result of StandardizedMeta.from_obograph_raw(meta)
    st_props,       \* per property: StandardizedProperty.from_obograph_raw
    raw_props,      \* per property: .to_raw on the standardized property
    st_syns,        \* per synonym: StandardizedSynonym.from_obograph_raw
    raw_syns,       \* per synonym: .to_raw on the standardized synonym
    resources,      \* the batch script: per resource, what read(url) gives
    resource,       \* the batch script: index of the resource of the loop
    batch_pc,       \* the batch script: the statement to execute next
    graph_raw,      \* the batch script: the document read (Optional)
    output          \* the batch script: the lines written so far

syn_vars == << st_syns, raw_syns >>

batch_vars == << resources, resource, batch_pc, graph_raw, output >>

vars == << converter, graph, meta, st_graph, raw_graph, st_doc, st_nodes,
           st_edges, raw_edges, id_to_node, id_to_edges, st_meta, st_props,
           raw_props, syn_vars, batch_vars >>

-----------------------------------------------------------------------------
(* Optional values, call results, sequence helpers                         *)

None == << >>

Some(x) == << x >>

Ok(v) == [err |-> "ok", val |-> << v >>]

Raise(e) == [err |-> e, val |-> << >>]

NotRun == [err |-> "not_run", val |-> << >>]

IsOk(r) == r.err = "ok"

Val(r) == r.val[1]

\* `except ValueError` also catches pydantic's ValidationError
IsValueError(e) == e \in {"ValueError", "ValidationError"}

Range(s) == { s[i] : i \in 1..Len(s) }

\* the error of the first failing result of a sequence of results, or "ok"
FirstErr(rs) ==
    IF \A i \in 1..Len(rs) : IsOk(rs[i]) THEN "ok"
    ELSE rs[CHOOSE i \in 1..Len(rs) :
                /\ ~IsOk(rs[i])
                /\ \A j \in 1..(i - 1) : IsOk(rs[j])].err

IsPrefix(p, s) == Len(p) <= Len(s) /\ SubSeq(s, 1, Len(p)) = p

Drop(s, n) == SubSeq(s, n + 1, Len(s))

-----------------------------------------------------------------------------
(* Strings of the model and the resolver (the curies Converter)            *)

\* URI prefix of every prefix a converter may register (tests' prefix map)
UriPrefixOf ==
    [ obo      |-> << "http://", "purl.obolibrary.org/obo/" >>,
      BFO      |-> << "http://", "purl.obolibrary.org/obo/", "BFO_" >>,
      rdfs     |-> << "http://", "www.w3.org/2000/01/rdf-schema#" >>,
      rdf      |-> << "http://", "www.w3.org/1999/02/22-rdf-syntax-ns#" >>,
      owl      |-> << "http://", "www.w3.org/2002/07/owl#" >>,
      oboInOwl |-> << "http://", "www.geneontology.org/formats/oboInOwl#" >> ]

Prefixes == DOMAIN UriPrefixOf

Reference(p, i) == [prefix |-> p, identifier |-> i]

\* converter.parse(s, strict=False): a URI under a registered URI prefix
\* (longest match), else a CURIE with a registered prefix, else None
Converter_parse(s, conv) ==
    LET hits == { p \in conv : /\ IsPrefix(UriPrefixOf[p], s)
                               /\ Len(s) > Len(UriPrefixOf[p]) }
    IN  IF hits # {}
        THEN LET p == CHOOSE q \in hits :
                          \A r \in hits : Len(UriPrefixOf[r]) <= Len(UriPrefixOf[q])
             IN  Some(Reference(p, Drop(s, Len(UriPrefixOf[p]))))
        ELSE IF Len(s) >= 3 /\ s[2] = ":" /\ s[1] \in conv
             THEN Some(Reference(s[1], Drop(s, 2)))
             ELSE None

\* converter.expand_reference(pair, strict): the URI prefix and the local
\* identifier concatenated; an unregistered prefix raises when strict and
\* returns None otherwise
Converter_expand_reference(ref, strict, conv) ==
    IF ref.prefix \in conv
    THEN Ok(Some(UriPrefixOf[ref.prefix] \o ref.identifier))
    ELSE IF strict THEN Raise("ExpansionError") ELSE Ok(None)

BuiltinStrings == { << "is_a" >>, << "subPropertyOf" >>, << "type" >>, << "inverseOf" >> }

BUILTINS ==
    [ s \in BuiltinStrings |->
        CASE s = << "is_a" >>          -> Reference("rdfs", << "subClassOf" >>)
          [] s = << "subPropertyOf" >> -> Reference("rdfs", << "subPropertyOf" >>)
          [] s = << "type" >>          -> Reference("rdf", << "type" >>)
          [] s = << "inverseOf" >>     -> Reference("owl", << "inverseOf" >>) ]

REVERSE_BUILTINS ==
    [ r \in { BUILTINS[k] : k \in DOMAIN BUILTINS } |->
        CHOOSE k \in DOMAIN BUILTINS : BUILTINS[k] = r ]

curie_or_uri_to_ref(s, conv) ==
    IF s \in DOMAIN BUILTINS THEN Some(BUILTINS[s])
    ELSE Converter_parse(s, conv)

\* the resolver calls curie_or_uri_to_ref(s, .) makes
curie_or_uri_to_ref_calls(s) ==
    IF s \in DOMAIN BUILTINS THEN { } ELSE { << "parse", s >> }

\* The value of a singleton set.  Operators below bind each sub-call once,
\* as v \in { call }, and use the bound value in the body.
The(S) == CHOOSE x \in S : TRUE

\* curie_or_uris: Optional[list[str]]
parse_list(curie_or_uris, conv) ==
    IF curie_or_uris = None \/ curie_or_uris[1] = << >> THEN None
    ELSE The({ Some([ i \in 1..Len(kept) |-> kept[i][1] ]) :
               kept \in { SelectSeq([ i \in 1..Len(curie_or_uris[1]) |->
                                        curie_or_uri_to_ref(curie_or_uris[1][i], conv) ],
                                    LAMBDA r : r # None) } })

\* references: Optional[list[Reference]]
expand_list(references, conv) ==
    IF references = None \/ references[1] = << >> THEN Ok(None)
    ELSE The({ IF FirstErr(rs) # "ok" THEN Raise(FirstErr(rs))
               ELSE Ok(Some([ i \in 1..Len(rs) |-> Val(rs[i])[1] ])) :
               rs \in { [ i \in 1..Len(references[1]) |->
                          Converter_expand_reference(references[1][i], TRUE, conv) ] } })

-----------------------------------------------------------------------------
(* StandardizedProperty, StandardizedDefinition, StandardizedXref,         *)
(* StandardizedSynonym                                                     *)

\* s.startswith("http://")
startswith_http(s) == Len(s) > 0 /\ s[1] = "http://"

\* s.startswith("https"): the token "https://" begins with "https"
startswith_https(s) == Len(s) > 0 /\ s[1] = "https://"

\* the two variants of StandardizedProperty.value: Reference | str
RefValue(r) == [kind |-> "Reference", ref |-> Some(r), str |-> None]

StrValue(s) == [kind |-> "str", ref |-> None, str |-> Some(s)]

\* lines 81-85: the value of the property, None when it does not resolve
StandardizedProperty_value(prop, conv) ==
    IF ~startswith_http(prop.val) /\ ~startswith_https(prop.val)
    THEN The({ IF r = None THEN None ELSE Some(RefValue(r[1])) :
               r \in { curie_or_uri_to_ref(prop.val, conv) } })
    ELSE Some(StrValue(prop.val))

StandardizedProperty_from_obograph_raw(prop, conv) ==
    IF prop.val = << >> \/ prop.pred = << >> THEN Raise("ValueError")
    ELSE The({ IF value = None THEN Raise("ValueError")
               \* predicate: Reference does not admit None
               ELSE IF predicate = None THEN Raise("ValidationError")
               ELSE Ok([predicate |-> predicate[1], value |-> value[1],
                        xrefs |-> None, meta |-> None]) :
               value \in { StandardizedProperty_value(prop, conv) },
               predicate \in { curie_or_uri_to_ref(prop.pred, conv) } })

\* the resolver calls that compute the raw pred of a property (line 96)
StandardizedProperty_to_raw_pred_calls(self) == { << "expand", self.predicate >> }

\* self.meta is None in every StandardizedProperty the engine builds
StandardizedProperty_to_raw(self, conv) ==
    The({ IF ~IsOk(xrefs) THEN Raise(xrefs.err)
          \* Property(pred: str, val: str) validates its arguments
          ELSE IF Val(pred) = None \/ self.value.kind # "str"
          THEN Raise("ValidationError")
          ELSE Ok([pred |-> Val(pred)[1], val |-> self.value.str[1]]) :
          pred \in { Converter_expand_reference(self.predicate, FALSE, conv) },
          xrefs \in { expand_list(self.xrefs, conv) } })

\* definition: Optional[Definition]
StandardizedDefinition_from_obograph_raw(definition, conv) ==
    IF definition = None THEN None
    ELSE Some([value |-> definition[1].val,
               xrefs |-> parse_list(definition[1].xrefs, conv)])

StandardizedDefinition_to_raw(self, conv) ==
    The({ IF ~IsOk(xrefs) THEN Raise(xrefs.err)
          ELSE Ok([val |-> self.value, xrefs |-> Val(xrefs)]) :
          xrefs \in { expand_list(self.xrefs, conv) } })

StandardizedXref_from_obograph_raw(xref, conv) ==
    The({ \* reference: Reference does not admit None
          IF reference = None THEN Raise("ValidationError")
          ELSE Ok([reference |-> reference[1]]) :
          reference \in { curie_or_uri_to_ref(xref.val, conv) } })

StandardizedXref_to_raw(self, conv) ==
    The({ \* Xref(val: str) validates its argument
          IF Val(val) = None THEN Raise("ValidationError")
          ELSE Ok([val |-> Val(val)[1]]) :
          val \in { Converter_expand_reference(self.reference, FALSE, conv) } })

\* line 156: synonym.synonymType and _curie_or_uri_to_ref(...)
StandardizedSynonym_type(synonym, conv) ==
    IF synonym.synonymType = None THEN Ok(None)
    \* "" and ... is "", which is no Reference
    ELSE IF synonym.synonymType[1] = << >> THEN Raise("ValidationError")
    ELSE Ok(curie_or_uri_to_ref(synonym.synonymType[1], conv))

StandardizedSynonym_from_obograph_raw(synonym, conv) ==
    The({ \* text: str does not admit None
          IF synonym.val = None THEN Raise("ValidationError")
          ELSE IF ~IsOk(type) THEN Raise(type.err)
          ELSE Ok([text |-> synonym.val[1],
                   predicate |-> Reference("oboInOwl", synonym.pred),
                   type |-> Val(type),
                   xrefs |-> parse_list(Some(synonym.xrefs), conv)]) :
          type \in { StandardizedSynonym_type(synonym, conv) } })

\* Synonym has no field `predicate`: the keyword is ignored and pred takes
\* its default; xrefs: list[str] does not admit None
StandardizedSynonym_to_raw(self, conv) ==
    The({ IF ~IsOk(xrefs) THEN Raise(xrefs.err)
          ELSE IF Val(xrefs) = None THEN Raise("ValidationError")
          ELSE Ok([val |-> Some(self.text), pred |-> << "hasExactSynonym" >>,
                   synonymType |-> synonymType, xrefs |-> Val(xrefs)[1]]) :
          synonymType \in { IF self.type # None
                            THEN Val(Converter_expand_reference(self.type[1], FALSE, conv))
                            ELSE None },
          xrefs \in { expand_list(self.xrefs, conv) } })

-----------------------------------------------------------------------------
(* StandardizedMeta                                                        *)

\* Optional[list] or []
OrEmpty(opt) == IF opt = None THEN << >> ELSE opt[1]

\* What one pass of a `try: ... except ValueError: log else: append` loop
\* leaves: rs[i] is the result of item i, or Raise("skipped") when the
\* guard of the loop skips the item.
LoopUncaught(rs) ==
    FirstErr([ i \in 1..Len(rs) |->
                 IF rs[i].err = "skipped" \/ IsValueError(rs[i].err)
                 THEN Ok(None) ELSE rs[i] ])

\* a variant in which the first failing item ends the loop
LoopKept_until_failure(rs) ==
    The({ [ i \in 1..Len(ok) |-> Val(ok[i]) ] :
          ok \in { SelectSeq([ i \in 1..Len(rs) |->
                                 IF \A j \in 1..i : IsOk(rs[j]) THEN rs[i]
                                 ELSE Raise("skipped") ],
                             LAMBDA r : IsOk(r)) } })

LoopKept(rs) ==
    The({ [ i \in 1..Len(ok) |-> Val(ok[i]) ] :
          ok \in { SelectSeq(rs, LAMBDA r : IsOk(r)) } })

\* `x or None` for a list x
OrNone(list) == IF list = << >> THEN None ELSE Some(list)

\* lines 192-200, rx the raw xrefs
StandardizedMeta_xrefs(rx, conv) ==
    [ i \in 1..Len(rx) |->
        IF rx[i].val # << >>
        THEN StandardizedXref_from_obograph_raw(rx[i], conv)
        ELSE Raise("skipped") ]

\* lines 202-210, rsyn the raw synonyms
StandardizedMeta_synonyms(rsyn, conv) ==
    [ i \in 1..Len(rsyn) |->
        IF rsyn[i].val # None /\ rsyn[i].val # Some(<< >>)
        THEN StandardizedSynonym_from_obograph_raw(rsyn[i], conv)
        ELSE Raise("skipped") ]

\* lines 212-220, rp the raw properties
StandardizedMeta_props(rp, conv) ==
    [ i \in 1..Len(rp) |->
        IF rp[i].val # << >> /\ rp[i].pred # << >>
        THEN StandardizedProperty_from_obograph_raw(rp[i], conv)
        ELSE Raise("skipped") ]

\* a variant that leaves out the subsets that do not resolve
StandardizedMeta_subsets_lenient(raw_subsets, conv) ==
    IF raw_subsets # None /\ raw_subsets # Some(<< >>)
    THEN Some(SelectSeq([ i \in 1..Len(raw_subsets[1]) |->
                            curie_or_uri_to_ref(raw_subsets[1][i], conv) ],
                        LAMBDA r : r # None))
    ELSE None

\* lines 224-226
StandardizedMeta_subsets(raw_subsets, conv) ==
    IF raw_subsets # None /\ raw_subsets # Some(<< >>)
    THEN Some([ i \in 1..Len(raw_subsets[1]) |->
                  curie_or_uri_to_ref(raw_subsets[1][i], conv) ])
    ELSE None

\* meta_: Optional[Meta]
StandardizedMeta_from_obograph_raw(meta_, conv) ==
    IF meta_ = None THEN Ok(None)
    ELSE The({ IF LoopUncaught(xrefs) # "ok" THEN Raise(LoopUncaught(xrefs))
               ELSE IF LoopUncaught(synonyms) # "ok" THEN Raise(LoopUncaught(synonyms))
               ELSE IF LoopUncaught(props) # "ok" THEN Raise(LoopUncaught(props))
               \* subsets: list[Reference] does not admit a None element
               ELSE IF subsets # None /\ \E i \in 1..Len(subsets[1]) : subsets[1][i] = None
               THEN Raise("ValidationError")
               ELSE Ok(Some(
                      [definition |-> definition,
                       subsets    |-> IF subsets = None THEN None
                                      ELSE Some([ i \in 1..Len(subsets[1]) |-> subsets[1][i][1] ]),
                       xrefs      |-> OrNone(LoopKept(xrefs)),
                       synonyms   |-> OrNone(LoopKept(synonyms)),
                       comments   |-> meta_[1].comments,
                       version    |-> meta_[1].version,
                       deprecated |-> meta_[1].deprecated,
                       properties |-> OrNone(LoopKept(props))])) :
               xrefs \in { StandardizedMeta_xrefs(OrEmpty(meta_[1].xrefs), conv) },
               synonyms \in { StandardizedMeta_synonyms(OrEmpty(meta_[1].synonyms), conv) },
               props \in { StandardizedMeta_props(OrEmpty(meta_[1].basicPropertyValues), conv) },
               definition \in { StandardizedDefinition_from_obograph_raw(meta_[1].definition, conv) },
               subsets \in { StandardizedMeta_subsets(meta_[1].subsets, conv) } })

\* lines 238-240
StandardizedMeta_to_raw_definition(self, conv) ==
    IF self.definition # None /\ self.definition[1].value # None
                              /\ self.definition[1].value # Some(<< >>)
    THEN The({ IF IsOk(d) THEN Ok(Some(Val(d))) ELSE d :
               d \in { StandardizedDefinition_to_raw(self.definition[1], conv) } })
    ELSE Ok(None)

\* line 242: _expand_list reads r.pair of every element; a StandardizedXref
\* has no attribute `pair`
StandardizedMeta_to_raw_xrefs(xrefs) ==
    IF xrefs = None \/ xrefs[1] = << >> THEN Ok(None) ELSE Raise("AttributeError")

StandardizedMeta_to_raw(self, conv) ==
    The({ IF FirstErr(<< definition, subsets, xrefs >> \o syns \o props) # "ok"
          THEN Raise(FirstErr(<< definition, subsets, xrefs >> \o syns \o props))
          ELSE Ok([definition |-> Val(definition),
                   subsets    |-> Val(subsets),
                   xrefs      |-> Val(xrefs),
                   synonyms   |-> IF syns = << >> THEN None
                                  ELSE Some([ i \in 1..Len(syns) |-> Val(syns[i]) ]),
                   comments   |-> self.comments,
                   version    |-> self.version,
                   deprecated |-> self.deprecated,
                   basicPropertyValues |->
                       IF props = << >> THEN None
                       ELSE Some([ i \in 1..Len(props) |-> Val(props[i]) ])]) :
          definition \in { StandardizedMeta_to_raw_definition(self, conv) },
          subsets \in { expand_list(self.subsets, conv) },
          xrefs \in { StandardizedMeta_to_raw_xrefs(self.xrefs) },
          syns \in { [ i \in 1..Len(OrEmpty(self.synonyms)) |->
                       StandardizedSynonym_to_raw(self.synonyms[1][i], conv) ] },
          props \in { [ i \in 1..Len(OrEmpty(self.properties)) |->
                        StandardizedProperty_to_raw(self.properties[1][i], conv) ] } })

\* `self.meta.to_raw(converter) if self.meta is not None else None`
OptionalMeta_to_raw(meta_, conv) ==
    IF meta_ = None THEN Ok(None)
    ELSE The({ IF IsOk(r) THEN Ok(Some(Val(r))) ELSE r :
               r \in { StandardizedMeta_to_raw(meta_[1], conv) } })

-----------------------------------------------------------------------------
(* StandardizedNode, StandardizedEdge, StandardizedGraph,                  *)
(* StandardizedGraphDocument                                               *)

\* obj.name on a pydantic model: the class's declared fields are the
\* record's fields, any other name raises AttributeError
GetAttr(obj, name) ==
    IF name \in DOMAIN obj THEN Ok(obj[name]) ELSE Raise("AttributeError")

\* returns Ok(None) for a dropped node
StandardizedNode_from_obograph_raw(node, conv) ==
    The({ IF reference = None THEN Ok(None)
          ELSE IF ~IsOk(meta_) THEN Raise(meta_.err)
          ELSE IF ~IsOk(property_type) THEN Raise(property_type.err)
          ELSE Ok(Some([reference |-> reference[1], label |-> node.lbl,
                        meta |-> Val(meta_), type |-> Some(node.type),
                        property_type |-> Val(property_type)])) :
          reference \in { curie_or_uri_to_ref(node.id, conv) },
          meta_ \in { StandardizedMeta_from_obograph_raw(node.meta, conv) },
          property_type \in { GetAttr(node, "propertyType") } })

\* Node(id: str, type: NodeType) validates its arguments; Node has no
\* field propertyType, the keyword is ignored
StandardizedNode_to_raw(self, conv) ==
    The({ IF ~IsOk(meta_) THEN Raise(meta_.err)
          ELSE IF id = None \/ self.type = None THEN Raise("ValidationError")
          ELSE Ok([id |-> id[1], lbl |-> self.label, meta |-> Val(meta_),
                   type |-> self.type[1]]) :
          id \in { Val(Converter_expand_reference(self.reference, FALSE, conv)) },
          meta_ \in { OptionalMeta_to_raw(self.meta, conv) } })

\* a variant that raises, instead of dropping the edge, when the predicate
\* does not resolve
StandardizedEdge_from_obograph_raw_strict(edge, conv) ==
    The({ IF subject = None THEN Ok(None)
          ELSE IF predicate = None THEN Raise("ValueError")
          ELSE IF obj = None THEN Ok(None)
          ELSE IF ~IsOk(meta_) THEN Raise(meta_.err)
          ELSE Ok(Some([subject |-> subject[1], predicate |-> predicate[1],
                        object |-> obj[1], meta |-> Val(meta_)])) :
          subject \in { curie_or_uri_to_ref(edge.sub, conv) },
          predicate \in { curie_or_uri_to_ref(edge.pred, conv) },
          obj \in { curie_or_uri_to_ref(edge.obj, conv) },
          meta_ \in { StandardizedMeta_from_obograph_raw(edge.meta, conv) } })

\* returns Ok(None) for a dropped edge
StandardizedEdge_from_obograph_raw(edge, conv) ==
    The({ IF subject = None THEN Ok(None)
          ELSE IF predicate = None THEN Ok(None)
          ELSE IF obj = None THEN Ok(None)
          ELSE IF ~IsOk(meta_) THEN Raise(meta_.err)
          ELSE Ok(Some([subject |-> subject[1], predicate |-> predicate[1],
                        object |-> obj[1], meta |-> Val(meta_)])) :
          subject \in { curie_or_uri_to_ref(edge.sub, conv) },
          predicate \in { curie_or_uri_to_ref(edge.pred, conv) },
          obj \in { curie_or_uri_to_ref(edge.obj, conv) },
          meta_ \in { StandardizedMeta_from_obograph_raw(edge.meta, conv) } })

\* lines 324-327: the raw predicate of an edge
StandardizedEdge_to_raw_predicate(self, conv) ==
    IF self.predicate \in DOMAIN REVERSE_BUILTINS
    THEN Ok(Some(REVERSE_BUILTINS[self.predicate]))
    ELSE Converter_expand_reference(self.predicate, TRUE, conv)

\* the resolver calls lines 324-327 make
StandardizedEdge_to_raw_predicate_calls(self) ==
    IF self.predicate \in DOMAIN REVERSE_BUILTINS THEN { }
    ELSE { << "expand", self.predicate >> }

StandardizedEdge_to_raw(self, conv) ==
    The({ IF ~IsOk(predicate) THEN Raise(predicate.err)
          ELSE IF ~IsOk(meta_) THEN Raise(meta_.err)
          \* Edge(sub: str, pred: str, obj: str) validates its arguments
          ELSE IF sub = None \/ obj = None THEN Raise("ValidationError")
          ELSE Ok([sub |-> sub[1], pred |-> Val(predicate)[1], obj |-> obj[1],
                   meta |-> Val(meta_)]) :
          predicate \in { StandardizedEdge_to_raw_predicate(self, conv) },
          sub \in { Val(Converter_expand_reference(self.subject, FALSE, conv)) },
          obj \in { Val(Converter_expand_reference(self.object, FALSE, conv)) },
          meta_ \in { OptionalMeta_to_raw(self.meta, conv) } })

\* the values of a sequence of Ok(Optional) results that are not None
KeptOf(rs) ==
    The({ [ i \in 1..Len(some) |-> Val(some[i])[1] ] :
          some \in { SelectSeq(rs, LAMBDA r : Val(r) # None) } })

StandardizedGraph_from_obograph_raw(g, conv) ==
    The({ IF FirstErr(<< meta_ >> \o nodes \o edges) # "ok"
          THEN Raise(FirstErr(<< meta_ >> \o nodes \o edges))
          ELSE Ok([id |-> g.id, meta |-> Val(meta_),
                   nodes |-> KeptOf(nodes), edges |-> KeptOf(edges)]) :
          meta_ \in { StandardizedMeta_from_obograph_raw(g.meta, conv) },
          nodes \in { [ i \in 1..Len(g.nodes) |->
                        StandardizedNode_from_obograph_raw(g.nodes[i], conv) ] },
          edges \in { [ i \in 1..Len(g.edges) |->
                        StandardizedEdge_from_obograph_raw(g.edges[i], conv) ] } })

\* the literal `...` given as id at line 372: neither None nor a str
Ellipsis == << << "..." >>, << "..." >> >>

\* Graph(id: str | None) validates its arguments
StandardizedGraph_to_raw(self, conv) ==
    The({ IF FirstErr(<< meta_ >> \o nodes \o edges) # "ok"
          THEN Raise(FirstErr(<< meta_ >> \o nodes \o edges))
          ELSE IF Len(id) > 1 THEN Raise("ValidationError")
          ELSE Ok([id |-> id, meta |-> Val(meta_),
                   nodes |-> [ i \in 1..Len(nodes) |-> Val(nodes[i]) ],
                   edges |-> [ i \in 1..Len(edges) |-> Val(edges[i]) ]]) :
          id \in { Ellipsis },
          meta_ \in { OptionalMeta_to_raw(self.meta, conv) },
          nodes \in { [ i \in 1..Len(self.nodes) |->
                        StandardizedNode_to_raw(self.nodes[i], conv) ] },
          edges \in { [ i \in 1..Len(self.edges) |->
                        StandardizedEdge_to_raw(self.edges[i], conv) ] } })

\* line 412: the Meta of graph_document.meta
StandardizedGraphDocument_meta(graph_document, conv) ==
    The({ IF IsOk(doc_meta)
          THEN StandardizedMeta_from_obograph_raw(Val(doc_meta), conv)
          ELSE doc_meta :
          doc_meta \in { GetAttr(graph_document, "meta") } })

StandardizedGraphDocument_from_obograph_raw(graph_document, conv) ==
    The({ IF FirstErr(graphs \o << meta_ >>) # "ok"
          THEN Raise(FirstErr(graphs \o << meta_ >>))
          ELSE Ok([graphs |-> [ i \in 1..Len(graphs) |-> Val(graphs[i]) ],
                   meta |-> Val(meta_)]) :
          graphs \in { [ i \in 1..Len(graph_document.graphs) |->
                         StandardizedGraph_from_obograph_raw(graph_document.graphs[i], conv) ] },
          meta_ \in { StandardizedGraphDocument_meta(graph_document, conv) } })

\* GraphDocument has no field meta: the keyword is ignored
StandardizedGraphDocument_to_raw(self, conv) ==
    The({ IF FirstErr(graphs \o << meta_ >>) # "ok"
          THEN Raise(FirstErr(graphs \o << meta_ >>))
          ELSE Ok([graphs |-> [ i \in 1..Len(graphs) |-> Val(graphs[i]) ]]) :
          graphs \in { [ i \in 1..Len(self.graphs) |->
                         StandardizedGraph_to_raw(self.graphs[i], conv) ] },
          meta_ \in { OptionalMeta_to_raw(self.meta, conv) } })

-----------------------------------------------------------------------------
(* Indexing utilities of the raw model                                     *)

RECURSIVE NodeDict(_)
\* {node.id: node for node in nodes}: a later node replaces an earlier one
NodeDict(nodes) ==
    IF nodes = << >> THEN << >>
    ELSE The({ [ k \in DOMAIN d \cup { nodes[Len(nodes)].id } |->
                   IF k = nodes[Len(nodes)].id THEN nodes[Len(nodes)] ELSE d[k] ] :
               d \in { NodeDict(SubSeq(nodes, 1, Len(nodes) - 1)) } })

\* a variant in which the first node carrying an id is the one kept
get_id_to_node_first_wins(g) ==
    NodeDict([ i \in 1..Len(g.nodes) |-> g.nodes[Len(g.nodes) + 1 - i] ])

get_id_to_node(g) == NodeDict(g.nodes)

RECURSIVE EdgeSets(_)
\* the defaultdict(set) after the loop of get_id_to_edges
EdgeSets(edges) ==
    IF edges = << >> THEN << >>
    ELSE The({ [ k \in DOMAIN dd \cup { e.sub } |->
                   (IF k \in DOMAIN dd THEN dd[k] ELSE { })
                       \cup (IF k = e.sub THEN { << e.pred, e.obj >> } ELSE { }) ] :
               e \in { edges[Len(edges)] },
               dd \in { EdgeSets(SubSeq(edges, 1, Len(edges) - 1)) } })

\* list(a_set): the elements of the set, each once, in some order
ListsOf(S) == { s \in [ 1..Cardinality(S) -> S ] : Range(s) = S }

\* a variant that collects the pairs in a list per subject (no set)
get_id_to_edges_lists(g) ==
    { [ k \in { g.edges[i].sub : i \in 1..Len(g.edges) } |->
          The({ [ i \in 1..Len(es) |-> << es[i].pred, es[i].obj >> ] :
                es \in { SelectSeq(g.edges, LAMBDA e : e.sub = k) } }) ] }

\* the dictionaries get_id_to_edges may return
get_id_to_edges(g) ==
    UNION { { d \in [ DOMAIN dd -> UNION { ListsOf(dd[k]) : k \in DOMAIN dd } ] :
                \A k \in DOMAIN dd : d[k] \in ListsOf(dd[k]) } :
            dd \in { EdgeSets(g.edges) } }

-----------------------------------------------------------------------------
(* Inputs: the raw strings, nodes, edges and converters of the model       *)

\* the most nodes and edges, together, of the raw graph
MaxGraphItems == 3

\* the most xrefs, synonyms, properties and subsets, together, of the raw Meta
MaxMetaItems == 3

FemaleUri == UriPrefixOf.obo \o << "T/Female" >>

PersonUri == UriPrefixOf.obo \o << "T/Person" >>

PersonCurie == << "obo", ":", "T/Person" >>

BfoUri == UriPrefixOf.BFO \o << "0000001" >>

PartOfUri == UriPrefixOf.obo \o << "part_of" >>

SubClassOfUri == UriPrefixOf.rdfs \o << "subClassOf" >>

NotAnId == << "not a uri or curie" >>

FreeText == << "some free text" >>

GraphId == UriPrefixOf.obo \o << "T" >>

EmptyMeta ==
    [definition |-> None, subsets |-> None, xrefs |-> None, synonyms |-> None,
     comments |-> None, version |-> None, basicPropertyValues |-> None,
     deprecated |-> FALSE]

BadSubsetMeta == [EmptyMeta EXCEPT !.subsets = Some(<< NotAnId >>)]

CommentMeta == [EmptyMeta EXCEPT !.comments = Some(<< << "a comment" >> >>)]

Node(id, lbl, meta_, type) == [id |-> id, lbl |-> lbl, meta |-> meta_, type |-> type]

Edge(sub, pred, obj, meta_) == [sub |-> sub, pred |-> pred, obj |-> obj, meta |-> meta_]

Graph(id, meta_, nodes, edges) == [id |-> id, meta |-> meta_, nodes |-> nodes, edges |-> edges]

GraphDocument(graphs) == [graphs |-> graphs]

NodeInputs ==
    { Node(FemaleUri, Some(<< "Female" >>), None, "CLASS"),
      Node(FemaleUri, None, Some(CommentMeta), "INDIVIDUAL"),
      Node(BfoUri, Some(<< "entity" >>), None, "CLASS"),
      Node(NotAnId, None, None, "CLASS") }

EdgeInputs ==
    { Edge(FemaleUri, << "is_a" >>, PersonUri, None),
      Edge(FemaleUri, PartOfUri, BfoUri, Some(CommentMeta)),
      Edge(FemaleUri, SubClassOfUri, PersonCurie, None),
      Edge(NotAnId, << "is_a" >>, PersonUri, None),
      Edge(FemaleUri, NotAnId, PersonUri, None),
      Edge(FemaleUri, << "inverseOf" >>, NotAnId, None),
      Edge(PersonUri, << "type" >>, FemaleUri, Some(BadSubsetMeta)) }

Property(pred, val) == [pred |-> pred, val |-> val]

Xref(val) == [val |-> val]

Synonym(val, pred, synonymType, xrefs) ==
    [val |-> val, pred |-> pred, synonymType |-> synonymType, xrefs |-> xrefs]

UnregisteredUri == << "https://", "example.org/x" >>

PropertyInputs ==
    { Property(<< "is_a" >>, PersonUri),
      Property(<< "inverseOf" >>, UnregisteredUri),
      Property(PartOfUri, FreeText),
      Property(PartOfUri, PersonCurie),
      Property(PartOfUri, PersonUri),
      Property(NotAnId, PersonUri),
      Property(PartOfUri, << >>) }

XrefInputs == { Xref(FemaleUri), Xref(PersonCurie), Xref(NotAnId), Xref(<< >>) }

SynonymInputs ==
    { Synonym(Some(<< "woman" >>), << "hasExactSynonym" >>, None, << >>),
      Synonym(Some(<< "female person" >>), << "hasBroadSynonym" >>, Some(NotAnId),
              << NotAnId, PersonUri >>),
      Synonym(Some(<< >>), << "hasExactSynonym" >>, None, << >>),
      Synonym(Some(<< "female" >>), << "hasNarrowSynonym" >>, None, << PersonUri >>),
      Synonym(Some(<< "lady" >>), << "hasRelatedSynonym" >>, Some(PersonCurie),
              << PersonCurie >>) }

SubsetInputs == { FemaleUri, NotAnId }

Converters ==
    { { }, { "obo" }, { "obo", "BFO", "rdfs" },
      { "obo", "rdfs", "rdf", "owl", "oboInOwl" } }

-----------------------------------------------------------------------------
(* The graph-level state machine: a raw graph is read (built node by node  *)
(* and edge by edge), then one operation of the library is applied to it.  *)

results == << st_graph, raw_graph, st_doc, st_nodes, st_edges, raw_edges,
              id_to_node, id_to_edges >>

meta_vars == << meta, st_meta, st_props, raw_props >>

Idle == \A i \in 1..Len(results) : results[i] = NotRun

\* the batch script is not run
NoBatch ==
    /\ resources = << >> /\ resource = 1 /\ batch_pc = "for"
    /\ graph_raw = None /\ output = << >>

Init ==
    /\ converter \in Converters
    /\ graph \in { Graph(id, None, << >>, << >>) : id \in { None, Some(GraphId) } }
    /\ meta = EmptyMeta
    /\ st_graph = NotRun /\ raw_graph = NotRun /\ st_doc = NotRun
    /\ st_nodes = NotRun /\ st_edges = NotRun /\ raw_edges = NotRun
    /\ id_to_node = NotRun /\ id_to_edges = NotRun
    /\ st_meta = NotRun /\ st_props = NotRun /\ raw_props = NotRun
    /\ st_syns = NotRun /\ raw_syns = NotRun
    /\ NoBatch

AddNode ==
    /\ Idle
    /\ Len(graph.nodes) + Len(graph.edges) < MaxGraphItems
    /\ \E n \in NodeInputs : graph' = [graph EXCEPT !.nodes = Append(@, n)]
    /\ UNCHANGED << converter, batch_vars, syn_vars, results, meta_vars >>

AddEdge ==
    /\ Idle
    /\ Len(graph.nodes) + Len(graph.edges) < MaxGraphItems
    /\ \E e \in EdgeInputs : graph' = [graph EXCEPT !.edges = Append(@, e)]
    /\ UNCHANGED << converter, batch_vars, syn_vars, results, meta_vars >>

Standardize ==
    /\ Idle
    /\ st_graph' = StandardizedGraph_from_obograph_raw(graph, converter)
    /\ UNCHANGED << converter, batch_vars, syn_vars, graph, raw_graph, st_doc, st_nodes, st_edges,
                    raw_edges, id_to_node, id_to_edges, meta_vars >>

ToRaw ==
    /\ IsOk(st_graph)
    /\ raw_graph = NotRun
    /\ raw_graph' = StandardizedGraph_to_raw(Val(st_graph), converter)
    /\ UNCHANGED << converter, batch_vars, syn_vars, graph, st_graph, st_doc, st_nodes, st_edges,
                    raw_edges, id_to_node, id_to_edges, meta_vars >>

StandardizeDocument ==
    /\ Idle
    /\ st_doc' = StandardizedGraphDocument_from_obograph_raw(
                     GraphDocument(<< graph >>), converter)
    /\ UNCHANGED << converter, batch_vars, syn_vars, graph, st_graph, raw_graph, st_nodes, st_edges,
                    raw_edges, id_to_node, id_to_edges, meta_vars >>

\* StandardizedNode.from_obograph_raw on every node of the graph
StandardizeNodes ==
    /\ Idle
    /\ graph.nodes # << >>
    /\ st_nodes' = Ok([ i \in 1..Len(graph.nodes) |->
                          StandardizedNode_from_obograph_raw(graph.nodes[i], converter) ])
    /\ UNCHANGED << converter, batch_vars, syn_vars, graph, st_graph, raw_graph, st_doc, st_edges,
                    raw_edges, id_to_node, id_to_edges, meta_vars >>

\* StandardizedEdge.from_obograph_raw on every edge of the graph
StandardizeEdges ==
    /\ Idle
    /\ graph.edges # << >>
    /\ st_edges' = Ok([ i \in 1..Len(graph.edges) |->
                          StandardizedEdge_from_obograph_raw(graph.edges[i], converter) ])
    /\ UNCHANGED << converter, batch_vars, syn_vars, graph, st_graph, raw_graph, st_doc, st_nodes,
                    raw_edges, id_to_node, id_to_edges, meta_vars >>

\* .to_raw on every standardized edge
EdgesToRaw ==
    /\ IsOk(st_edges)
    /\ raw_edges = NotRun
    /\ raw_edges' = Ok([ i \in 1..Len(Val(st_edges)) |->
                           LET r == Val(st_edges)[i]
                           IN  IF IsOk(r) /\ Val(r) # None
                               THEN StandardizedEdge_to_raw(Val(r)[1], converter)
                               ELSE NotRun ])
    /\ UNCHANGED << converter, batch_vars, syn_vars, graph, st_graph, raw_graph, st_doc, st_nodes,
                    st_edges, id_to_node, id_to_edges, meta_vars >>

IndexNodes ==
    /\ Idle
    /\ id_to_node' = Ok(get_id_to_node(graph))
    /\ UNCHANGED << converter, batch_vars, syn_vars, graph, st_graph, raw_graph, st_doc, st_nodes,
                    st_edges, raw_edges, id_to_edges, meta_vars >>

IndexEdges ==
    /\ Idle
    /\ \E d \in get_id_to_edges(graph) : id_to_edges' = Ok(d)
    /\ UNCHANGED << converter, batch_vars, syn_vars, graph, st_graph, raw_graph, st_doc, st_nodes,
                    st_edges, raw_edges, id_to_node, meta_vars >>

Next ==
    \/ AddNode
    \/ AddEdge
    \/ Standardize
    \/ ToRaw
    \/ StandardizeDocument
    \/ StandardizeNodes
    \/ StandardizeEdges
    \/ EdgesToRaw
    \/ IndexNodes
    \/ IndexEdges

Spec == Init /\ [][Next]_vars
-----------------------------------------------------------------------------
(* The Meta-level state machine: a raw Meta is read (built item by item),  *)
(* then one operation of the library is applied to it or to its items.     *)

graph_vars == << graph, st_graph, raw_graph, st_doc, st_nodes, st_edges,
                 raw_edges, id_to_node, id_to_edges >>

MetaIdle ==
    /\ st_meta = NotRun /\ st_props = NotRun /\ raw_props = NotRun
    /\ st_syns = NotRun /\ raw_syns = NotRun

MetaItems ==
    Len(OrEmpty(meta.xrefs)) + Len(OrEmpty(meta.synonyms))
        + Len(OrEmpty(meta.basicPropertyValues)) + Len(OrEmpty(meta.subsets))

InitMeta ==
    /\ converter \in Converters
    /\ graph = Graph(None, None, << >>, << >>)
    /\ meta = EmptyMeta
    /\ st_graph = NotRun /\ raw_graph = NotRun /\ st_doc = NotRun
    /\ st_nodes = NotRun /\ st_edges = NotRun /\ raw_edges = NotRun
    /\ id_to_node = NotRun /\ id_to_edges = NotRun
    /\ st_meta = NotRun /\ st_props = NotRun /\ raw_props = NotRun
    /\ st_syns = NotRun /\ raw_syns = NotRun
    /\ NoBatch

AddXref ==
    /\ MetaIdle
    /\ MetaItems < MaxMetaItems
    /\ \E x \in XrefInputs :
           meta' = [meta EXCEPT !.xrefs = Some(Append(OrEmpty(@), x))]
    /\ UNCHANGED << converter, batch_vars, syn_vars, graph_vars, st_meta, st_props, raw_props >>

AddSynonym ==
    /\ MetaIdle
    /\ MetaItems < MaxMetaItems
    /\ \E s \in SynonymInputs :
           meta' = [meta EXCEPT !.synonyms = Some(Append(OrEmpty(@), s))]
    /\ UNCHANGED << converter, batch_vars, syn_vars, graph_vars, st_meta, st_props, raw_props >>

AddProperty ==
    /\ MetaIdle
    /\ MetaItems < MaxMetaItems
    /\ \E p \in PropertyInputs :
           meta' = [meta EXCEPT !.basicPropertyValues = Some(Append(OrEmpty(@), p))]
    /\ UNCHANGED << converter, batch_vars, syn_vars, graph_vars, st_meta, st_props, raw_props >>

AddSubset ==
    /\ MetaIdle
    /\ MetaItems < MaxMetaItems
    /\ \E s \in SubsetInputs :
           meta' = [meta EXCEPT !.subsets = Some(Append(OrEmpty(@), s))]
    /\ UNCHANGED << converter, batch_vars, syn_vars, graph_vars, st_meta, st_props, raw_props >>

StandardizeMeta ==
    /\ MetaIdle
    /\ st_meta' = StandardizedMeta_from_obograph_raw(Some(meta), converter)
    /\ UNCHANGED << converter, batch_vars, syn_vars, graph_vars, meta, st_props, raw_props >>

\* StandardizedProperty.from_obograph_raw on every property of the Meta
StandardizeProperties ==
    /\ MetaIdle
    /\ meta.basicPropertyValues # None
    /\ st_props' = Ok([ i \in 1..Len(meta.basicPropertyValues[1]) |->
                          StandardizedProperty_from_obograph_raw(
                              meta.basicPropertyValues[1][i], converter) ])
    /\ UNCHANGED << converter, batch_vars, syn_vars, graph_vars, meta, st_meta, raw_props >>

\* .to_raw on every standardized property
PropertiesToRaw ==
    /\ IsOk(st_props)
    /\ raw_props = NotRun
    /\ raw_props' = Ok([ i \in 1..Len(Val(st_props)) |->
                           IF IsOk(Val(st_props)[i])
                           THEN StandardizedProperty_to_raw(Val(Val(st_props)[i]), converter)
                           ELSE NotRun ])
    /\ UNCHANGED << converter, batch_vars, syn_vars, graph_vars, meta, st_meta, st_props >>

\* StandardizedSynonym.from_obograph_raw on every synonym of the Meta
StandardizeSynonyms ==
    /\ MetaIdle
    /\ meta.synonyms # None
    /\ st_syns' = Ok([ i \in 1..Len(meta.synonyms[1]) |->
                         StandardizedSynonym_from_obograph_raw(
                             meta.synonyms[1][i], converter) ])
    /\ UNCHANGED << converter, batch_vars, graph_vars, meta, st_meta, st_props,
                    raw_props, raw_syns >>

\* .to_raw on every standardized synonym
SynonymsToRaw ==
    /\ IsOk(st_syns)
    /\ raw_syns = NotRun
    /\ raw_syns' = Ok([ i \in 1..Len(Val(st_syns)) |->
                          IF IsOk(Val(st_syns)[i])
                          THEN StandardizedSynonym_to_raw(Val(Val(st_syns)[i]), converter)
                          ELSE NotRun ])
    /\ UNCHANGED << converter, batch_vars, graph_vars, meta, st_meta, st_props,
                    raw_props, st_syns >>

NextMeta ==
    \/ StandardizeSynonyms
    \/ SynonymsToRaw
    \/ AddXref
    \/ AddSynonym
    \/ AddProperty
    \/ AddSubset
    \/ StandardizeMeta
    \/ StandardizeProperties
    \/ PropertiesToRaw

SpecMeta == InitMeta /\ [][NextMeta]_vars
-----------------------------------------------------------------------------
(* The batch script (scripts/from_bioregistry.py): main's loop over the    *)
(* resources.  resources[k] is what obographs.read(url) gives for the k-th *)
(* resource: a GraphDocument, or the exception it raises.                  *)

\* the most resources of a batch
MaxResources == 3

ReadOutcomes ==
    { Raise("JSONDecodeError"), Raise("NotImplementedError"), Raise("ValidationError"),
      Ok(GraphDocument(<< Graph(None, None, << >>, << >>) >>)),
      Ok(GraphDocument(<< Graph(Some(GraphId), None,
                                << Node(NotAnId, None, None, "CLASS") >>, << >>) >>)) }

\* a line written for the k-th resource; a traceback stands for the lines
\* traceback.print_exception writes
Line(k, text) == [resource |-> k, text |-> text]

\* line 70: graph_raw.standardize(converter); GraphDocument declares no
\* attribute `standardize`
GraphDocument_standardize(graph_document, conv) ==
    The({ IF IsOk(method)
          THEN StandardizedGraphDocument_from_obograph_raw(graph_document, conv)
          ELSE method :
          method \in { GetAttr(graph_document, "standardize") } })

InitBatch ==
    /\ converter = Prefixes
    /\ graph = Graph(None, None, << >>, << >>)
    /\ meta = EmptyMeta
    /\ st_graph = NotRun /\ raw_graph = NotRun /\ st_doc = NotRun
    /\ st_nodes = NotRun /\ st_edges = NotRun /\ raw_edges = NotRun
    /\ id_to_node = NotRun /\ id_to_edges = NotRun
    /\ st_meta = NotRun /\ st_props = NotRun /\ raw_props = NotRun
    /\ st_syns = NotRun /\ raw_syns = NotRun
    /\ resources \in UNION { [1..n -> ReadOutcomes] : n \in 0..MaxResources }
    /\ resource = 1 /\ batch_pc = "for"
    /\ graph_raw = None /\ output = << >>

\* lines 52-55: the next resource is taken and announced
BatchFor ==
    /\ batch_pc = "for"
    /\ resource <= Len(resources)
    /\ output' = Append(output, Line(resource, "Parsing"))
    /\ batch_pc' = "read"
    /\ UNCHANGED << converter, graph_vars, meta_vars, syn_vars, resources, resource,
                    graph_raw >>

\* line 52: the resources are exhausted
BatchEnd ==
    /\ batch_pc = "for"
    /\ resource > Len(resources)
    /\ batch_pc' = "done"
    /\ UNCHANGED << converter, graph_vars, meta_vars, syn_vars, resources, resource,
                    graph_raw, output >>

\* the variant in which no handler catches what read raises
BatchRead_uncaught ==
    /\ batch_pc = "read"
    /\ IF IsOk(resources[resource])
       THEN /\ graph_raw' = Some(Val(resources[resource]))
            /\ batch_pc' = "standardize"
       ELSE /\ batch_pc' = "raised"
            /\ UNCHANGED graph_raw
    /\ UNCHANGED << converter, graph_vars, meta_vars, syn_vars, resources, resource,
                    output >>

\* lines 56-68
BatchRead ==
    /\ batch_pc = "read"
    /\ IF IsOk(resources[resource])
       THEN /\ graph_raw' = Some(Val(resources[resource]))
            /\ batch_pc' = "standardize"
            /\ UNCHANGED << resource, output >>
       ELSE /\ output' =
                  IF resources[resource].err = "JSONDecodeError"
                  THEN Append(output, Line(resource, "failed to decode JSON"))
                  ELSE output \o << Line(resource, "failed to read"),
                                    Line(resource, "traceback") >>
            /\ resource' = resource + 1
            /\ batch_pc' = "for"
            /\ UNCHANGED graph_raw
    /\ UNCHANGED << converter, graph_vars, meta_vars, syn_vars, resources >>

\* lines 69-76
BatchStandardize ==
    /\ batch_pc = "standardize"
    /\ output' = Append(output,
                        Line(resource,
                             IF IsOk(GraphDocument_standardize(graph_raw[1], converter))
                             THEN "Done" ELSE "failed to standardize"))
    /\ resource' = resource + 1
    /\ batch_pc' = "for"
    /\ UNCHANGED << converter, graph_vars, meta_vars, syn_vars, resources, graph_raw >>

NextBatch ==
    \/ BatchFor
    \/ BatchEnd
    \/ BatchRead
    \/ BatchStandardize

SpecBatch == InitBatch /\ [][NextBatch]_vars

\* main runs to its end: a statement that can be executed is executed
SpecBatchFair == SpecBatch /\ WF_vars(NextBatch)

Attempted(k) == \E j \in 1..Len(output) : output[j] = Line(k, "Parsing")

FailureTexts == { "failed to decode JSON", "failed to read", "failed to standardize" }

FailureLines(k) ==
    { j \in 1..Len(output) : output[j].resource = k /\ output[j].text \in FailureTexts }

\* the document of the k-th resource cannot be read or cannot be standardized
Failed(k) ==
    \/ ~IsOk(resources[k])
    \/ ~IsOk(GraphDocument_standardize(Val(resources[k]), converter))

BatchSafety ==
    /\ batch_pc \in { "for", "read", "standardize", "done" }
    /\ \A k \in 1..Len(resources) :
           k < resource =>
               /\ Attempted(k)
               /\ Cardinality(FailureLines(k)) = IF Failed(k) THEN 1 ELSE 0
    /\ batch_pc = "done" => resource = Len(resources) + 1

-----------------------------------------------------------------------------
(* Indexing utilities (model.py)                                           *)

NodeIds == { graph.nodes[i].id : i \in 1..Len(graph.nodes) }

\* C10: get_id_to_node has exactly the node ids of the graph as keys, and
\* each key maps to the last node of graph.nodes carrying that id.
C10_NodeIndexLastWins ==
    IsOk(id_to_node) =>
        /\ DOMAIN Val(id_to_node) = NodeIds
        /\ \A k \in NodeIds :
               \E i \in 1..Len(graph.nodes) :
                   /\ graph.nodes[i].id = k
                   /\ \A j \in (i + 1)..Len(graph.nodes) : graph.nodes[j].id # k
                   /\ Val(id_to_node)[k] = graph.nodes[i]

\* two different nodes carry the same id and the index was built
C10_Witness ==
    /\ IsOk(id_to_node)
    /\ \E i, j \in 1..Len(graph.nodes) :
           /\ i < j
           /\ graph.nodes[i].id = graph.nodes[j].id
           /\ graph.nodes[i] # graph.nodes[j]
           /\ Val(id_to_node)[graph.nodes[i].id] = graph.nodes[j]

EdgeSubjects == { graph.edges[i].sub : i \in 1..Len(graph.edges) }

PairsOf(s) ==
    { << graph.edges[i].pred, graph.edges[i].obj >> :
          i \in { j \in 1..Len(graph.edges) : graph.edges[j].sub = s } }

\* C9: get_id_to_edges maps each subject that has an edge to the distinct
\* (pred, obj) pairs of its edges: every pair present, each once, and no
\* other key.
C9_EdgeIndexDedup ==
    IsOk(id_to_edges) =>
        /\ DOMAIN Val(id_to_edges) = EdgeSubjects
        /\ \A s \in EdgeSubjects :
               /\ Range(Val(id_to_edges)[s]) = PairsOf(s)
               /\ Len(Val(id_to_edges)[s]) = Cardinality(PairsOf(s))

\* an exact duplicate edge, beside a different edge of the same subject,
\* and the index holds the two distinct pairs
C9_Witness ==
    /\ IsOk(id_to_edges)
    /\ \E i, j, k \in 1..Len(graph.edges) :
           /\ i < j
           /\ graph.edges[i] = graph.edges[j]
           /\ graph.edges[k].sub = graph.edges[i].sub
           /\ graph.edges[k] # graph.edges[i]
           /\ Len(Val(id_to_edges)[graph.edges[i].sub]) = 2

-----------------------------------------------------------------------------
(* Dropping of edges and of Meta items (standardized.py)                   *)

\* the string s is resolved by the converter in use
Resolves(s) == curie_or_uri_to_ref(s, converter) # None

AllResolve(e) == Resolves(e.sub) /\ Resolves(e.pred) /\ Resolves(e.obj)

\* the indices of the raw edges whose three identifiers resolve
KeptEdges == { i \in 1..Len(graph.edges) : AllResolve(graph.edges[i]) }

\* the position, among the kept indices K, of the index i
Rank(K, i) == Cardinality({ k \in K : k <= i })

IsImageOfEdge(se, e) ==
    /\ Some(se.subject) = curie_or_uri_to_ref(e.sub, converter)
    /\ Some(se.predicate) = curie_or_uri_to_ref(e.pred, converter)
    /\ Some(se.object) = curie_or_uri_to_ref(e.obj, converter)

\* C4: a raw edge is in the standardized edge list iff its sub, pred and obj
\* all resolve.  An edge with an unresolved identifier yields None and no
\* error; the kept edges are the images of the resolving edges in their
\* original order; and a graph fails only where a node resolves or a Meta
\* fails, never for an edge that is dropped.
C4_EdgeDrop ==
    /\ IsOk(st_edges) =>
           \A i \in 1..Len(graph.edges) :
               /\ ~AllResolve(graph.edges[i]) => Val(st_edges)[i] = Ok(None)
               /\ (AllResolve(graph.edges[i]) /\ IsOk(Val(st_edges)[i])) =>
                      /\ Val(Val(st_edges)[i]) # None
                      /\ IsImageOfEdge(Val(Val(st_edges)[i])[1], graph.edges[i])
    /\ IsOk(st_graph) =>
           /\ Len(Val(st_graph).edges) = Cardinality(KeptEdges)
           /\ \A i \in KeptEdges :
                  IsImageOfEdge(Val(st_graph).edges[Rank(KeptEdges, i)], graph.edges[i])
    /\ (st_graph # NotRun /\ ~IsOk(st_graph)) =>
           \/ \E i \in 1..Len(graph.nodes) : Resolves(graph.nodes[i].id)
           \/ \E i \in KeptEdges :
                  ~IsOk(StandardizedMeta_from_obograph_raw(graph.edges[i].meta, converter))

\* a graph is standardized in which an edge whose predicate alone does not
\* resolve stands between two edges that are kept
C4_Witness ==
    /\ IsOk(st_graph)
    /\ Len(graph.edges) = 3
    /\ KeptEdges = { 1, 3 }
    /\ Resolves(graph.edges[2].sub) /\ Resolves(graph.edges[2].obj)
    /\ Len(Val(st_graph).edges) = 2
    /\ graph.edges[1] # graph.edges[3]

\* the indices of the raw items of a list whose own standardization succeeds
KeptXrefs ==
    { i \in 1..Len(OrEmpty(meta.xrefs)) : Resolves(OrEmpty(meta.xrefs)[i].val) }

KeptSynonyms ==
    { i \in 1..Len(OrEmpty(meta.synonyms)) :
          /\ OrEmpty(meta.synonyms)[i].val \notin { None, Some(<< >>) }
          /\ IsOk(StandardizedSynonym_from_obograph_raw(OrEmpty(meta.synonyms)[i], converter)) }

KeptProperties ==
    { i \in 1..Len(OrEmpty(meta.basicPropertyValues)) :
          IsOk(StandardizedProperty_from_obograph_raw(
                   OrEmpty(meta.basicPropertyValues)[i], converter)) }

SubsetsResolve == \A i \in 1..Len(OrEmpty(meta.subsets)) : Resolves(OrEmpty(meta.subsets)[i])

-----------------------------------------------------------------------------
(* Graphs, nodes and documents (standardized.py)                           *)

\* C7: the id of a raw graph passes through standardization unchanged, and
\* to_raw of the standardized graph yields a raw graph with that id again.
C7_GraphIdPassthrough ==
    /\ IsOk(st_graph) => Val(st_graph).id = graph.id
    /\ raw_graph # NotRun => (IsOk(raw_graph) /\ Val(raw_graph).id = graph.id)

\* the indices of the raw nodes whose id resolves
KeptNodes == { i \in 1..Len(graph.nodes) : Resolves(graph.nodes[i].id) }

\* every Meta of the graph that is standardized can be standardized
MetasStandardize ==
    /\ IsOk(StandardizedMeta_from_obograph_raw(graph.meta, converter))
    /\ \A i \in KeptNodes :
           IsOk(StandardizedMeta_from_obograph_raw(graph.nodes[i].meta, converter))
    /\ \A i \in KeptEdges :
           IsOk(StandardizedMeta_from_obograph_raw(graph.edges[i].meta, converter))

\* C3: the node list of a standardized graph is exactly the images of the
\* raw nodes whose id resolves, in their original order; a node whose id
\* does not resolve is absent, raises no error and costs no other node or
\* edge.
C3_NodeDrop ==
    (st_graph # NotRun /\ MetasStandardize) =>
        /\ IsOk(st_graph)
        /\ Len(Val(st_graph).nodes) = Cardinality(KeptNodes)
        /\ \A i \in KeptNodes :
               /\ Some(Val(st_graph).nodes[Rank(KeptNodes, i)].reference)
                      = curie_or_uri_to_ref(graph.nodes[i].id, converter)
               /\ Val(st_graph).nodes[Rank(KeptNodes, i)].label = graph.nodes[i].lbl
        /\ Len(Val(st_graph).edges) = Cardinality(KeptEdges)

\* s is a full URI under a URI prefix registered in the converter
UnderRegisteredPrefix(s) ==
    \E p \in converter :
        IsPrefix(UriPrefixOf[p], s) /\ Len(s) > Len(UriPrefixOf[p])

\* C8: a raw node whose id is a URI under a registered URI prefix is
\* standardized to a reference that expands to the id, and to_raw of the
\* standardized node gives the original id, label and type.
C8_NodeIdRoundTrip ==
    IsOk(st_nodes) =>
        \A i \in 1..Len(graph.nodes) :
            ( /\ UnderRegisteredPrefix(graph.nodes[i].id)
              /\ IsOk(StandardizedMeta_from_obograph_raw(graph.nodes[i].meta, converter)) )
            => /\ IsOk(Val(st_nodes)[i])
               /\ Val(Val(st_nodes)[i]) # None
               /\ Converter_expand_reference(
                      Val(Val(st_nodes)[i])[1].reference, FALSE, converter)
                      = Ok(Some(graph.nodes[i].id))
               /\ \A raw \in { StandardizedNode_to_raw(Val(Val(st_nodes)[i])[1], converter) } :
                      /\ IsOk(raw)
                      /\ Val(raw).id = graph.nodes[i].id
                      /\ Val(raw).lbl = graph.nodes[i].lbl
                      /\ Val(raw).type = graph.nodes[i].type

\* an absent list and an empty list are the same list
NormalizedMeta(meta_) ==
    IF meta_ = None THEN None
    ELSE Some([meta_[1] EXCEPT !.subsets = Some(OrEmpty(@)),
                               !.xrefs = Some(OrEmpty(@)),
                               !.synonyms = Some(OrEmpty(@)),
                               !.comments = Some(OrEmpty(@)),
                               !.basicPropertyValues = Some(OrEmpty(@))])

NormalizedGraph(g) ==
    [id |-> g.id, meta |-> NormalizedMeta(g.meta),
     nodes |-> [ i \in 1..Len(g.nodes) |->
                   [g.nodes[i] EXCEPT !.meta = NormalizedMeta(@)] ],
     edges |-> [ i \in 1..Len(g.edges) |->
                   [g.edges[i] EXCEPT !.meta = NormalizedMeta(@)] ]]

\* C1: when standardizing a document drops no node and no edge,
\* from_obograph_raw followed by to_raw succeeds and gives the document
\* back, field for field, absent and empty lists being identified.
C1_RoundTrip ==
    ( /\ st_doc # NotRun
      /\ KeptNodes = 1..Len(graph.nodes)
      /\ KeptEdges = 1..Len(graph.edges) )
    => /\ IsOk(st_doc)
       /\ \A raw \in { StandardizedGraphDocument_to_raw(Val(st_doc), converter) } :
              /\ IsOk(raw)
              /\ Len(Val(raw).graphs) = 1
              /\ NormalizedGraph(Val(raw).graphs[1]) = NormalizedGraph(graph)

-----------------------------------------------------------------------------
(* Properties (standardized.py)                                            *)

RawProperties == OrEmpty(meta.basicPropertyValues)

C2_BuiltinDuality ==
    /\ IsOk(raw_props) =>
           \A i \in 1..Len(RawProperties) :
               (RawProperties[i].pred \in BuiltinStrings /\ IsOk(Val(st_props)[i]))
               => /\ curie_or_uri_to_ref_calls(RawProperties[i].pred) = { }
                  /\ StandardizedProperty_to_raw_pred_calls(Val(Val(st_props)[i])) = { }
                  /\ IsOk(Val(raw_props)[i])
                  /\ Val(Val(raw_props)[i]).pred = RawProperties[i].pred
    /\ IsOk(raw_edges) =>
           \A i \in 1..Len(graph.edges) :
               (graph.edges[i].pred \in BuiltinStrings /\ AllResolve(graph.edges[i])
                    /\ IsOk(Val(st_edges)[i]))
               => /\ curie_or_uri_to_ref_calls(graph.edges[i].pred) = { }
                  /\ StandardizedEdge_to_raw_predicate_calls(Val(Val(st_edges)[i])[1]) = { }
                  /\ IsOk(Val(raw_edges)[i])
                  /\ Val(Val(raw_edges)[i]).pred = graph.edges[i].pred

-----------------------------------------------------------------------------
(* De-standardization of synonyms and property values (standardized.py)    *)

RawSynonyms == OrEmpty(meta.synonyms)

\* the References a standardized synonym holds
SynonymReferences(self) ==
    { self.predicate } \cup Range(self.type) \cup Range(OrEmpty(self.xrefs))

Unregistered(ref) == ref.prefix \notin converter

\* C12: a to_raw call that meets a Reference whose prefix is not registered
\* in the converter fails with an error; it never returns a raw entity
\* (here: a synonym with its predicate, type and xrefs, a property with its
\* predicate).
C12_ExpansionFailureFatal ==
    /\ IsOk(raw_syns) =>
           \A i \in 1..Len(RawSynonyms) :
               ( /\ IsOk(Val(st_syns)[i])
                 /\ \E ref \in SynonymReferences(Val(Val(st_syns)[i])) : Unregistered(ref) )
               => ~IsOk(Val(raw_syns)[i])
    /\ IsOk(raw_props) =>
           \A i \in 1..Len(RawProperties) :
               ( /\ IsOk(Val(st_props)[i])
                 /\ Unregistered(Val(Val(st_props)[i]).predicate) )
               => ~IsOk(Val(raw_props)[i])

\* C13: to_raw of a standardized property gives a raw Property whose val is
\* the stored string when the value is a literal and the full URI of the
\* reference when the value is a Reference; a raw Property is produced in
\* both cases.
C13_PropertyValueToRaw ==
    IsOk(raw_props) =>
        \A i \in 1..Len(RawProperties) :
            ( /\ IsOk(Val(st_props)[i])
              /\ ~Unregistered(Val(Val(st_props)[i]).predicate) )
            => /\ IsOk(Val(raw_props)[i])
               /\ \A value \in { Val(Val(st_props)[i]).value } :
                      Some(Val(Val(raw_props)[i]).val)
                          = IF value.kind = "str" THEN value.str
                            ELSE Val(Converter_expand_reference(value.ref[1], FALSE, converter))

SynonymPredicates ==
    { << "hasExactSynonym" >>, << "hasBroadSynonym" >>,
      << "hasNarrowSynonym" >>, << "hasRelatedSynonym" >> }

\* C16: a raw synonym with a non-empty val, one of the four synonym
\* predicates, and a synonymType and xrefs that are absent or resolve, is
\* standardized and de-standardized to a raw synonym with the same val and
\* the same pred.
C16_SynonymRoundTrip ==
    IsOk(raw_syns) =>
        \A i \in 1..Len(RawSynonyms) :
            ( /\ RawSynonyms[i].val \notin { None, Some(<< >>) }
              /\ RawSynonyms[i].pred \in SynonymPredicates
              /\ RawSynonyms[i].synonymType = None \/ Resolves(RawSynonyms[i].synonymType[1])
              /\ \A j \in 1..Len(RawSynonyms[i].xrefs) : Resolves(RawSynonyms[i].xrefs[j]) )
            => /\ IsOk(Val(st_syns)[i])
               /\ IsOk(Val(raw_syns)[i])
               /\ Val(Val(raw_syns)[i]).val = RawSynonyms[i].val
               /\ Val(Val(raw_syns)[i]).pred = RawSynonyms[i].pred

-----------------------------------------------------------------------------
(* Subsets and builtin predicates (standardized.py)                        *)

\* C14: when a string of Meta.subsets does not resolve,
\* StandardizedMeta.from_obograph_raw raises (a Meta that is produced holds
\* the reference of every one of its subsets), and the error is not caught
\* by the graph, the edge or the node that standardizes the Meta: their
\* calls raise it too.
C14_SubsetStrictness ==
    st_meta # NotRun =>
        /\ IsOk(st_meta) =>
               /\ Len(OrEmpty(Val(st_meta)[1].subsets)) = Len(OrEmpty(meta.subsets))
               /\ \A i \in 1..Len(OrEmpty(meta.subsets)) :
                      Some(Val(st_meta)[1].subsets[1][i])
                          = curie_or_uri_to_ref(meta.subsets[1][i], converter)
        /\ ~SubsetsResolve =>
               /\ st_meta = Raise("ValidationError")
               /\ StandardizedGraph_from_obograph_raw(
                      Graph(None, Some(meta), << >>, << >>), converter) = st_meta
               /\ Resolves(FemaleUri) =>
                      /\ StandardizedEdge_from_obograph_raw(
                             Edge(FemaleUri, << "is_a" >>, PersonUri, Some(meta)),
                             converter) = st_meta
                      /\ StandardizedNode_from_obograph_raw(
                             Node(FemaleUri, None, Some(meta), "CLASS"), converter) = st_meta
                      /\ StandardizedGraph_from_obograph_raw(
                             Graph(None, None, << >>,
                                   << Edge(FemaleUri, << "is_a" >>, PersonUri, Some(meta)) >>),
                             converter) = st_meta

\* a Meta whose subsets are one that resolves and one that does not was
\* given to from_obograph_raw, with a converter that resolves node ids
C14_Witness ==
    /\ st_meta = Raise("ValidationError")
    /\ Resolves(FemaleUri)
    /\ \E i, j \in 1..Len(OrEmpty(meta.subsets)) :
           Resolves(meta.subsets[1][i]) /\ ~Resolves(meta.subsets[1][j])

\* C15: two distinct raw predicate strings that are standardized to the
\* same Reference are strings the converter itself parses to the same
\* reference; and an edge predicate that is a builtin string and one that is
\* the full URI of its reference do not come back as one raw string.
C15_NoEngineCollapse ==
    /\ IsOk(st_edges) =>
           \A i, j \in KeptEdges :
               ( /\ graph.edges[i].pred # graph.edges[j].pred
                 /\ curie_or_uri_to_ref(graph.edges[i].pred, converter)
                        = curie_or_uri_to_ref(graph.edges[j].pred, converter) )
               => Converter_parse(graph.edges[i].pred, converter)
                      = Converter_parse(graph.edges[j].pred, converter)
    /\ IsOk(raw_edges) =>
           \A i, j \in KeptEdges :
               ( /\ graph.edges[i].pred # graph.edges[j].pred
                 /\ IsOk(Val(raw_edges)[i]) /\ IsOk(Val(raw_edges)[j]) )
               => Val(Val(raw_edges)[i]).pred # Val(Val(raw_edges)[j]).pred

=============================================================================
